---- MODULE Spec2Model ----
(***************************************************************************)
(* A model of src/index.js, which holds two programs:                      *)
(*   - the interactive converter (lines 1-319): prompts for an input and   *)
(*     an output directory, converts HEIC stills, muxes every still with   *)
(*     its matching video synchronously, optionally moves the files that   *)
(*     were not processed to <output>/other_files and writes               *)
(*     problematic_files.txt;                                              *)
(*   - the command-line muxer (lines 321-578): takes --dir or              *)
(*     --photo/--video, muxes with piped streams and annotates with a      *)
(*     metadata read-modify-write.                                         *)
(* File names are sequences of characters, paths are <<directory, name>>,  *)
(* a file is its bytes and its embedded metadata.                          *)
(***************************************************************************)
EXTENDS Integers, Sequences, FiniteSets, TLC

\* ------------------------------------------------------------------ bounds

\* The longest directory listing the runs start from.
MaxFiles == 3

\* ------------------------------------------------------- strings and paths

\* String.prototype.toLowerCase, on the characters the file names use.
toLowerCase(s) ==
    LET lower(c) ==
            CASE c = "J" -> "j" [] c = "P" -> "p" [] c = "G" -> "g"
              [] c = "M" -> "m" [] c = "O" -> "o" [] c = "V" -> "v"
              [] c = "H" -> "h" [] c = "E" -> "e" [] c = "I" -> "i"
              [] c = "C" -> "c" [] c = "A" -> "a" [] c = "B" -> "b"
              [] OTHER -> c
    IN  [i \in 1..Len(s) |-> lower(s[i])]

\* String.prototype.endsWith
endsWith(s, suffix) ==
    /\ Len(s) >= Len(suffix)
    /\ SubSeq(s, Len(s) - Len(suffix) + 1, Len(s)) = suffix

\* String.prototype.startsWith
startsWith(s, prefix) ==
    /\ Len(s) >= Len(prefix)
    /\ SubSeq(s, 1, Len(prefix)) = prefix

\* The position at which path.parse splits a base name into name and ext:
\* the last dot that is not the first character, 0 when there is none.
extDot(base) ==
    LET dots == {i \in 2..Len(base) : base[i] = "."}
    IN  IF dots = {} THEN 0 ELSE CHOOSE i \in dots : \A j \in dots : j <= i

\* path.parse(p).name of a base name
parseName(base) ==
    IF extDot(base) = 0 THEN base ELSE SubSeq(base, 1, extDot(base) - 1)

\* path.parse(p).ext and path.extname(p) of a base name
parseExt(base) ==
    IF extDot(base) = 0 THEN <<>> ELSE SubSeq(base, extDot(base), Len(base))

DOT_JPG == <<".", "j", "p", "g">>
DOT_JPEG == <<".", "j", "p", "e", "g">>
DOT_MOV == <<".", "m", "o", "v">>
DOT_MP4 == <<".", "m", "p", "4">>
DOT_HEIC == <<".", "h", "e", "i", "c">>
DOT_PNG == <<".", "p", "n", "g">>
DOT_GIF == <<".", "g", "i", "f">>
UP_MOV == <<".", "M", "O", "V">>
UP_MP4 == <<".", "M", "P", "4">>
SUFFIX_ORIGINAL == <<"_", "o", "r", "i", "g", "i", "n", "a", "l">>

\* A path is <<directory, base name>>; path.join(dir, file).
join(dir, file) == <<dir, file>>
basename(p) == p[2]
dirname(p) == p[1]

\* path.join normalises "./d" to "d"; the file system sees both as one place.
normDir(d) == IF d = "./in" THEN "in" ELSE d
norm(p) == <<normDir(p[1]), p[2]>>

\* The value of a path variable that holds null, "" or undefined.
NoPath == <<"", <<>>>>

\* ------------------------------------------------------------- the inputs

\* The file names of the runs, in the order that numbers them.
NameSeq ==
    << <<"a", ".", "j", "p", "g">>,
       <<"a", ".", "m", "o", "v">>,
       <<"a", "b", ".", "M", "O", "V">>,
       <<"a", ".", "h", "e", "i", "c">>,
       <<"b", ".", "J", "P", "G">>,
       <<"b", ".", "m", "p", "4">>,
       <<"a", ".", "t", "x", "t">> >>

\* The file names the directory listings are drawn from.
Names == {NameSeq[i] : i \in 1..Len(NameSeq)}

\* Every source file has its own bytes: file number k is k bytes of value k.
bytesOf(name) ==
    LET k == CHOOSE i \in 1..Len(NameSeq) : NameSeq[i] = name
    IN  [i \in 1..k |-> k]

\* The metadata a source file carries: stills have a camera entry.
metaOf(name) ==
    IF toLowerCase(parseExt(name)) \in {DOT_JPG, DOT_HEIC}
    THEN [k \in {"Make"} |-> 1]
    ELSE [k \in {} |-> 0]

\* --------------------------------------------------------------- the state

VARIABLES
    pc,               \* where the running program stands; "uncaught_<E>"
                      \* once an exception E has ended it
    args,             \* the answers to the prompts, or the command line
    listing,          \* the input directory's entries in readdir order
    fs,               \* the files: path -> [bytes, meta]
    dirs,             \* the directories that exist
    files,            \* processDirectory's `files` (its readdirSync result)
    idx,              \* the position of the loop over `files` or over `pairs`
    cur,              \* the pair at hand: photo, video, the HEIC it came from,
                      \* and the bytes both files held when the pair was taken up
    merged,           \* the path mergeFiles returned
    offset,           \* the offset computed from the two sizes
    processedFiles,   \* the processed-files record
    problematicFiles, \* the problem list
    matchingPairs,    \* the count of pairs the run reports
    report,           \* the lines of problematic_files.txt, <<>> while unwritten
    exifLog,          \* the metadata writes issued: [file, offset, ok, warned];
                      \* warned: "Failed to delete" was logged for the sidecar
    filePairs,        \* the pairs the command-line processDirectory returned
    metadata,         \* the tags the command-line addXmpMetadata read
    streams           \* the write streams the command-line mergeFiles opened

vars ==
    << pc, args, listing, fs, dirs, files, idx, cur, merged, offset,
       processedFiles, problematicFiles, matchingPairs, report, exifLog,
       filePairs, metadata, streams >>

\* ------------------------------------------------------- the file system

Range(s) == {s[i] : i \in 1..Len(s)}

\* fs.existsSync on a file path
existsSync(f, p) == norm(p) \in DOMAIN f

\* fs.writeFileSync and every other whole-file write
writeFile(f, p, v) == (norm(p) :> v) @@ f

\* fs.unlinkSync
unlink(f, p) == [q \in DOMAIN f \ {norm(p)} |-> f[q]]

\* fs.statSync(p).size
statSize(f, p) == Len(f[norm(p)].bytes)

\* The directories of the runs: "in" and "out" exist, "." is the working
\* directory, "missing" does not exist and "notadir" is a regular file.
dirExists(ds, d) == normDir(d) \in ds \/ d = "notadir"
isDirectory(ds, d) == normDir(d) \in ds

\* fs.readdirSync(d): the entries listed at the start that still exist, in
\* listing order (the files the runs add to d are no videos and no stills
\* of the listing, and follow).
readdirSync(f, d) ==
    LET here(n) == <<normDir(d), n>> \in DOMAIN f
    IN  IF normDir(d) = "in" THEN SelectSeq(listing, here) ELSE <<>>

\* The file system a run starts from: the listing's files in "in".
InitialFs(l) ==
    [p \in {<<"in", n>> : n \in Range(l)} |->
        [bytes |-> bytesOf(basename(p)), meta |-> metaOf(basename(p))]]

InitialDirs == {"in", "out", "."}

NoFile == [bytes |-> <<>>, meta |-> <<>>]
NoPair ==
    [photo |-> NoPath, video |-> NoPath, heic |-> NoPath,
     stillBytes |-> <<>>, videoBytes |-> <<>>]

\* The pair (photo, video), with the bytes the two files hold in f.
TakeUp(f, photo, video, heic) ==
    [photo |-> photo, video |-> video, heic |-> heic,
     stillBytes |-> IF existsSync(f, photo) THEN f[norm(photo)].bytes ELSE <<>>,
     videoBytes |-> IF existsSync(f, video) THEN f[norm(video)].bytes ELSE <<>>]

\* ------------------------------------------ the interactive converter (1-319)

\* validateDirectory without the lstatSync(dir).isDirectory() test.
validateDirectory_existsOnly(ds, dir) ==
    /\ dir # ""
    /\ dirExists(ds, dir)

validateDirectory(ds, dir) ==
    /\ dir # ""
    /\ dirExists(ds, dir)
    /\ isDirectory(ds, dir)

validateFile(f, filePath) ==
    /\ filePath # NoPath
    /\ existsSync(f, filePath)

validateMedia(f, photoPath, videoPath) ==
    /\ validateFile(f, photoPath)
    /\ validateFile(f, videoPath)
    /\ \/ endsWith(toLowerCase(basename(photoPath)), DOT_JPG)
       \/ endsWith(toLowerCase(basename(photoPath)), DOT_JPEG)
    /\ \/ endsWith(toLowerCase(basename(videoPath)), DOT_MOV)
       \/ endsWith(toLowerCase(basename(videoPath)), DOT_MP4)

\* The file mergeFiles writes to.
outPathOf(photoPath, outputPath) == join(outputPath, basename(photoPath))

\* mergeFiles: the file system after the synchronous read, read, write. The
\* output is a JPEG whose header is the photo's, so it carries its metadata.
mergeFiles(f, photoPath, videoPath, outputPath) ==
    writeFile(f, outPathOf(photoPath, outputPath),
              [bytes |-> f[norm(photoPath)].bytes \o f[norm(videoPath)].bytes,
               meta |-> f[norm(photoPath)].meta])

\* The tags addXmpMetadata writes.
xmpTags(off) ==
    [k \in {"XMP:MicroVideo", "XMP:MicroVideoVersion", "XMP:MicroVideoOffset",
            "XMP:MicroVideoPresentationTimestampUs"} |->
        CASE k = "XMP:MicroVideo" -> 1
          [] k = "XMP:MicroVideoVersion" -> 1
          [] k = "XMP:MicroVideoOffset" -> off
          [] OTHER -> 1500000]

\* The path of the backup the metadata service leaves beside a file.
sidecarOf(p) == <<p[1], p[2] \o SUFFIX_ORIGINAL>>

\* exiftool.write with the entries that are there winning over the tags.
exiftoolWrite_keepExisting(f, file, tags) ==
    LET old == f[norm(file)]
        new == [old EXCEPT !.meta = old.meta @@ tags]
        kept == IF existsSync(f, sidecarOf(file)) THEN f
                ELSE writeFile(f, sidecarOf(file), old)
    IN  writeFile(kept, file, new)

\* exiftool.write(file, tags): the tags are set in the file's metadata, the
\* other entries stay; the file as it was is kept as <file>_original unless
\* one is there already.
exiftoolWrite(f, file, tags) ==
    LET old == f[norm(file)]
        new == [old EXCEPT !.meta = tags @@ old.meta]
        kept == IF existsSync(f, sidecarOf(file)) THEN f
                ELSE writeFile(f, sidecarOf(file), old)
    IN  writeFile(kept, file, new)

\* addXmpMetadata after a write that succeeded: the write, then the unlink
\* of the sidecar, whose failure is only logged.
addXmpMetadata(f, mergedFile, off, unlinkOk) ==
    LET written == exiftoolWrite(f, mergedFile, xmpTags(off))
    IN  IF unlinkOk THEN unlink(written, sidecarOf(mergedFile)) ELSE written

\* matchingVideo without the return inside the loop: the last such entry.
matchingVideo_lastWins(f, photoPath, videoDir) ==
    LET base == parseName(basename(photoPath))
        entries == readdirSync(f, videoDir)
        hits == {i \in 1..Len(entries) :
                    /\ startsWith(entries[i], base)
                    /\ \/ endsWith(toLowerCase(entries[i]), DOT_MOV)
                       \/ endsWith(toLowerCase(entries[i]), DOT_MP4)}
    IN  IF hits = {} THEN NoPath
        ELSE join(videoDir, entries[CHOOSE i \in hits : \A j \in hits : j <= i])

\* matchingVideo: the first entry of videoDir that starts with the photo's
\* name and ends in .mov or .mp4, NoPath when there is none.
matchingVideo(f, photoPath, videoDir) ==
    LET base == parseName(basename(photoPath))
        entries == readdirSync(f, videoDir)
        hits == {i \in 1..Len(entries) :
                    /\ startsWith(entries[i], base)
                    /\ \/ endsWith(toLowerCase(entries[i]), DOT_MOV)
                       \/ endsWith(toLowerCase(entries[i]), DOT_MP4)}
    IN  IF hits = {} THEN NoPath
        ELSE join(videoDir, entries[CHOOSE i \in hits : \A j \in hits : i <= j])

\* uniquePath: filename if it is free in destination, else the first of
\* name(1)ext, name(2)ext, ... that is.
RECURSIVE uniqueLoop(_, _, _, _, _)
uniqueLoop(f, destination, filename, newFilename, counter) ==
    IF existsSync(f, join(destination, newFilename))
    THEN uniqueLoop(f, destination, filename,
                    parseName(filename) \o <<"(", ToString(counter), ")">>
                        \o parseExt(filename),
                    counter + 1)
    ELSE join(destination, newFilename)

\* uniquePath without the loop: the name as it is.
uniquePath_noLoop(f, destination, filename) == join(destination, filename)

uniquePath(f, destination, filename) ==
    uniqueLoop(f, destination, filename, filename, 1)

\* The extensions of the move without the two video extensions.
MediaExts_noVideos == {DOT_HEIC, DOT_JPG, DOT_JPEG, DOT_PNG, DOT_GIF}

\* The extensions the move of the other files looks at.
MediaExts ==
    {DOT_HEIC, DOT_JPG, DOT_JPEG, DOT_MOV, DOT_MP4, DOT_PNG, DOT_GIF}

\* What heic-jpg-exif writes: a re-encoded image that keeps the metadata.
heicconvert(file) == [bytes |-> <<0>> \o file.bytes, meta |-> file.meta]

otherFilesDir == args.outputDir \o "/other_files"

\* The entry of `files` the loops stand at, and its path.
file == files[idx]
filePath == join(args.inputDir, files[idx])
isHeic(name) == endsWith(toLowerCase(name), DOT_HEIC)
isJpeg(name) ==
    \/ endsWith(toLowerCase(name), DOT_JPG)
    \/ endsWith(toLowerCase(name), DOT_JPEG)

cliVars == <<filePairs, metadata, streams>>

\* main, lines 243-258: the input directory is validated right after the
\* first prompt.
main ==
    /\ pc = "main"
    /\ pc' = IF validateDirectory(dirs, args.inputDir)
             THEN "processDirectory" ELSE "exit1"
    /\ UNCHANGED << args, listing, fs, dirs, files, idx, cur, merged, offset,
                    processedFiles, problematicFiles, matchingPairs, report,
                    exifLog, cliVars >>

\* processDirectory, lines 155-168: both directories are validated, then the
\* input directory is listed once.
processDirectory ==
    /\ pc = "processDirectory"
    /\ IF validateDirectory(dirs, args.inputDir)
          /\ validateDirectory(dirs, args.outputDir)
       THEN /\ files' = readdirSync(fs, args.inputDir)
            /\ idx' = 1
            /\ pc' = "scan"
       ELSE /\ pc' = "exit1"
            /\ UNCHANGED <<files, idx>>
    /\ UNCHANGED << args, listing, fs, dirs, cur, merged, offset,
                    processedFiles, problematicFiles, matchingPairs, report,
                    exifLog, cliVars >>

\* Lines 169-202 for an entry the loop passes over: neither a HEIC that is
\* converted nor a JPEG with a matching video.
skipEntry ==
    /\ pc = "scan"
    /\ idx <= Len(files)
    /\ ~ ( /\ isHeic(file)
           /\ \/ args.convertAllHeic
              \/ matchingVideo(fs, filePath, args.inputDir) # NoPath )
    /\ ~ ( /\ ~isHeic(file)
           /\ isJpeg(file)
           /\ matchingVideo(fs, filePath, args.inputDir) # NoPath )
    /\ idx' = idx + 1
    /\ UNCHANGED << pc, args, listing, fs, dirs, files, cur, merged, offset,
                    processedFiles, problematicFiles, matchingPairs, report,
                    exifLog, cliVars >>

\* Lines 171-176 with convertHeicToJpeg (39-53): the JPEG is written to the
\* working directory under the HEIC's name; a failure puts the HEIC on the
\* problem list.
convertHeicToJpeg ==
    /\ pc = "scan"
    /\ idx <= Len(files)
    /\ isHeic(file)
    /\ \/ args.convertAllHeic
       \/ matchingVideo(fs, filePath, args.inputDir) # NoPath
    /\ \E converted \in BOOLEAN :
        LET jpegPath == join(".", parseName(basename(filePath)) \o DOT_JPG)
            after == writeFile(fs, jpegPath, heicconvert(fs[norm(filePath)]))
            videoPath == matchingVideo(after, jpegPath, args.inputDir)
        IN  IF converted
            THEN /\ fs' = after
                 /\ processedFiles' = Append(processedFiles, filePath)
                 /\ UNCHANGED problematicFiles
                 /\ IF videoPath # NoPath
                    THEN /\ cur' = TakeUp(after, jpegPath, videoPath, filePath)
                         /\ pc' = "createMotionPhoto"
                    ELSE /\ cur' = [NoPair EXCEPT !.heic = filePath]
                         /\ pc' = "deleteConverted"
            ELSE /\ problematicFiles' = Append(problematicFiles, filePath)
                 /\ cur' = [NoPair EXCEPT !.heic = filePath]
                 /\ pc' = "deleteConverted"
                 /\ UNCHANGED <<fs, processedFiles>>
    /\ UNCHANGED << args, listing, dirs, files, idx, merged, offset,
                    matchingPairs, report, exifLog, cliVars >>

\* Lines 193-199: a JPEG of the listing with a matching video is a pair.
pairJpeg ==
    /\ pc = "scan"
    /\ idx <= Len(files)
    /\ ~isHeic(file)
    /\ isJpeg(file)
    /\ matchingVideo(fs, filePath, args.inputDir) # NoPath
    /\ cur' = TakeUp(fs, filePath,
                     matchingVideo(fs, filePath, args.inputDir), NoPath)
    /\ pc' = "createMotionPhoto"
    /\ UNCHANGED << args, listing, fs, dirs, files, idx, merged, offset,
                    processedFiles, problematicFiles, matchingPairs, report,
                    exifLog, cliVars >>

\* What follows createMotionPhoto's return in processDirectory (178-181 and
\* 200): the pair is counted, the intermediary JPEG of a HEIC is unlinked.
\* f is the file system createMotionPhoto left.
afterCreate(f) ==
    /\ matchingPairs' = matchingPairs + 1
    /\ IF cur.heic # NoPath
       THEN IF existsSync(f, cur.photo)
            THEN /\ fs' = unlink(f, cur.photo)
                 /\ pc' = "deleteConverted"
                 /\ UNCHANGED <<idx, cur>>
            ELSE /\ fs' = f
                 /\ pc' = "uncaught_ENOENT"
                 /\ UNCHANGED <<idx, cur>>
       ELSE /\ fs' = f
            /\ idx' = idx + 1
            /\ cur' = NoPair
            /\ pc' = "scan"

\* createMotionPhoto, lines 111-115: validation, then mergeFiles (81-90). A
\* read or write error of mergeFiles is thrown and nothing catches it.
createMotionPhoto ==
    /\ pc = "createMotionPhoto"
    /\ IF ~validateMedia(fs, cur.photo, cur.video)
       THEN /\ afterCreate(fs)
            /\ UNCHANGED <<dirs, merged, processedFiles>>
       ELSE \E io \in {"ok", "error"} :
            /\ dirs' = dirs \cup {normDir(args.outputDir)}
            /\ IF io = "ok"
               THEN /\ fs' = mergeFiles(fs, cur.photo, cur.video, args.outputDir)
                    /\ processedFiles' =
                           processedFiles \o <<cur.photo, cur.video>>
                    /\ merged' = outPathOf(cur.photo, args.outputDir)
                    /\ pc' = "statSync"
               ELSE /\ pc' = "uncaught_IOError"
                    /\ UNCHANGED <<fs, processedFiles, merged>>
            /\ UNCHANGED <<idx, cur, matchingPairs>>
    /\ UNCHANGED << args, listing, files, offset, problematicFiles, report,
                    exifLog, cliVars >>

\* createMotionPhoto, lines 116-118: the offset is the size of the merged
\* file minus the size of the photo, both read from the file system.
statSync ==
    /\ pc = "statSync"
    /\ offset' = statSize(fs, merged) - statSize(fs, cur.photo)
    /\ pc' = "addXmpMetadata"
    /\ UNCHANGED << args, listing, fs, dirs, files, idx, cur, merged,
                    processedFiles, problematicFiles, matchingPairs, report,
                    exifLog, cliVars >>

\* createMotionPhoto, line 119, with addXmpMetadata (92-108): a write that
\* fails rejects and nothing catches it.
annotate ==
    /\ pc = "addXmpMetadata"
    /\ \E written \in BOOLEAN, unlinkOk \in BOOLEAN :
        /\ exifLog' = Append(exifLog,
                             [file |-> merged, offset |-> offset, ok |-> written,
                              warned |-> written /\ ~unlinkOk])
        /\ IF written
           THEN afterCreate(addXmpMetadata(fs, merged, offset, unlinkOk))
           ELSE /\ unlinkOk
                /\ pc' = "uncaught_MetadataWriteError"
                /\ UNCHANGED <<fs, idx, cur, matchingPairs>>
    /\ UNCHANGED << args, listing, dirs, files, merged, offset,
                    processedFiles, problematicFiles, report, cliVars >>

\* Lines 184-191: with deleteConverted the HEIC is unlinked if it is there,
\* whether or not its conversion succeeded; a failing unlink is only logged.
deleteConverted ==
    /\ pc = "deleteConverted"
    /\ IF args.deleteConverted /\ existsSync(fs, cur.heic)
       THEN \E unlinkOk \in BOOLEAN :
                fs' = IF unlinkOk THEN unlink(fs, cur.heic) ELSE fs
       ELSE fs' = fs
    /\ idx' = idx + 1
    /\ cur' = NoPair
    /\ pc' = "scan"
    /\ UNCHANGED << args, listing, dirs, files, merged, offset,
                    processedFiles, problematicFiles, matchingPairs, report,
                    exifLog, cliVars >>

\* Lines 205-210: the loop is over; with moveOtherImages the other_files
\* directory is made.
endScan ==
    /\ pc = "scan"
    /\ idx > Len(files)
    /\ IF args.moveOtherImages
       THEN /\ dirs' = dirs \cup {otherFilesDir}
            /\ idx' = 1
            /\ pc' = "moveOthers"
       ELSE /\ pc' = "report"
            /\ UNCHANGED <<dirs, idx>>
    /\ UNCHANGED << args, listing, fs, files, cur, merged, offset,
                    processedFiles, problematicFiles, matchingPairs, report,
                    exifLog, cliVars >>

\* Lines 211-229 for one entry: a media file that is not in processedFiles
\* is renamed into other_files; renameSync throws if the file is gone.
moveOther ==
    /\ pc = "moveOthers"
    /\ idx <= Len(files)
    /\ IF /\ toLowerCase(parseExt(file)) \in MediaExts
          /\ filePath \notin Range(processedFiles)
       THEN IF existsSync(fs, filePath)
            THEN /\ fs' = writeFile(unlink(fs, filePath),
                                    uniquePath(fs, otherFilesDir, basename(filePath)),
                                    fs[norm(filePath)])
                 /\ idx' = idx + 1
                 /\ pc' = pc
            ELSE /\ pc' = "uncaught_ENOENT"
                 /\ UNCHANGED <<fs, idx>>
       ELSE /\ idx' = idx + 1
            /\ UNCHANGED <<fs, pc>>
    /\ UNCHANGED << args, listing, dirs, files, cur, merged, offset,
                    processedFiles, problematicFiles, matchingPairs, report,
                    exifLog, cliVars >>

\* Line 232: the move is over.
endMove ==
    /\ pc = "moveOthers"
    /\ idx > Len(files)
    /\ pc' = "report"
    /\ UNCHANGED << args, listing, fs, dirs, files, idx, cur, merged, offset,
                    processedFiles, problematicFiles, matchingPairs, report,
                    exifLog, cliVars >>

\* main, lines 300-316: the problem list is written to problematic_files.txt
\* if it is not empty, and the process exits with status 0.
writeReport ==
    /\ pc = "report"
    /\ report' = IF Len(problematicFiles) > 0 THEN problematicFiles ELSE report
    /\ pc' = "exit0"
    /\ UNCHANGED << args, listing, fs, dirs, files, idx, cur, merged, offset,
                    processedFiles, problematicFiles, matchingPairs, exifLog,
                    cliVars >>

\* ------------------------------------------ the command-line muxer (321-578)

\* validateDirectory, lines 330-340: TRUE when it returns, FALSE when it
\* ends the process with status 1.
validateDirectory_cli(ds, dir) ==
    /\ dirExists(ds, dir)
    /\ isDirectory(ds, dir)

\* validateMedia without the test of the video's extension.
validateMedia_cli_anyVideo(f, photoPath, videoPath) ==
    /\ existsSync(f, photoPath)
    /\ existsSync(f, videoPath)
    /\ \/ endsWith(toLowerCase(basename(photoPath)), DOT_JPG)
       \/ endsWith(toLowerCase(basename(photoPath)), DOT_JPEG)

\* validateMedia, lines 342-369
validateMedia_cli(f, photoPath, videoPath) ==
    /\ existsSync(f, photoPath)
    /\ existsSync(f, videoPath)
    /\ \/ endsWith(toLowerCase(basename(photoPath)), DOT_JPG)
       \/ endsWith(toLowerCase(basename(photoPath)), DOT_JPEG)
    /\ \/ endsWith(toLowerCase(basename(videoPath)), DOT_MOV)
       \/ endsWith(toLowerCase(basename(videoPath)), DOT_MP4)

\* matchingVideo, lines 421-440: the photo's name with .mov, .mp4, .MOV,
\* .MP4 in this order, under "./<dir>"; NoPath for the empty string.
matchingVideo_cli(f, photoPath) ==
    LET base(ext) == <<"./" \o dirname(photoPath),
                       parseName(basename(photoPath)) \o ext>>
    IN  CASE existsSync(f, base(DOT_MOV)) -> base(DOT_MOV)
          [] existsSync(f, base(DOT_MP4)) -> base(DOT_MP4)
          [] existsSync(f, base(UP_MOV)) -> base(UP_MOV)
          [] existsSync(f, base(UP_MP4)) -> base(UP_MP4)
          [] OTHER -> NoPath

\* processDirectory, lines 453-474: the pairs of the .jpg and .jpeg entries
\* that have a matching video, in listing order. (Every entry is a file.)
processDirectory_cli(f, fileDir) ==
    LET entries == readdirSync(f, fileDir)
        paired(name) ==
            /\ isJpeg(name)
            /\ matchingVideo_cli(f, join(fileDir, name)) # NoPath
        stills == SelectSeq(entries, paired)
    IN  [i \in 1..Len(stills) |->
            <<join(fileDir, stills[i]),
              matchingVideo_cli(f, join(fileDir, stills[i]))>>]

\* The tags addXmpMetadata (389-406) sets in what it read.
xmpTags_cli(off) ==
    [k \in {"Xmp.GCamera.MicroVideo", "Xmp.GCamera.MicroVideoVersion",
            "Xmp.GCamera.MicroVideoOffset",
            "Xmp.GCamera.MicroVideoPresentationTimestampUs"} |->
        CASE k = "Xmp.GCamera.MicroVideo" -> 1
          [] k = "Xmp.GCamera.MicroVideoVersion" -> 1
          [] k = "Xmp.GCamera.MicroVideoOffset" -> off
          [] OTHER -> 1500000]

\* addXmpMetadata, lines 392-404: the tags read from the file, with the four
\* keys set.
readAndSet(f, mergedFile, off) == xmpTags_cli(off) @@ f[norm(mergedFile)].meta

\* const outdir = args.output || "output"
outdir == IF args.output = "" THEN "output" ELSE args.output

\* The write streams whose file descriptor is on the file at path p.
onFile(st, p) == st.target = norm(p) /\ st.phase \in {"open", "photo"}

\* main, lines 477-482 and 516-527: --dir is validated and scanned for
\* pairs; without it --photo and --video are the one pair.
main_cli ==
    /\ pc = "cli_main"
    /\ IF args.dir # ""
       THEN IF validateDirectory_cli(dirs, args.dir) /\ ~args.recurse
            THEN /\ filePairs' = processDirectory_cli(fs, args.dir)
                 /\ pc' = "cli_pairs"
            ELSE /\ pc' = "exit1"
                 /\ UNCHANGED filePairs
       ELSE IF args.photo = NoPath \/ args.video = NoPath
            THEN /\ pc' = "exit1"
                 /\ UNCHANGED filePairs
            ELSE /\ filePairs' = <<<<args.photo, args.video>>>>
                 /\ pc' = "cli_pairs"
    /\ idx' = 1
    /\ UNCHANGED << args, listing, fs, dirs, files, cur, merged, offset,
                    processedFiles, problematicFiles, matchingPairs, report,
                    exifLog, metadata, streams >>

\* main, lines 484-485 and 527: the next pair is validated; one that fails
\* is passed over.
nextPair_cli ==
    /\ pc = "cli_pairs"
    /\ idx <= Len(filePairs)
    /\ IF validateMedia_cli(fs, filePairs[idx][1], filePairs[idx][2])
       THEN /\ cur' = TakeUp(fs, filePairs[idx][1], filePairs[idx][2], NoPath)
            /\ pc' = "cli_convert"
            /\ UNCHANGED idx
       ELSE /\ idx' = idx + 1
            /\ UNCHANGED <<cur, pc>>
    /\ UNCHANGED << args, listing, fs, dirs, files, merged, offset,
                    processedFiles, problematicFiles, matchingPairs, report,
                    exifLog, cliVars >>

\* convert, line 411, with mergeFiles (371-387): the output directory is
\* made, the three streams are created and the path is returned; no byte
\* has been written.
mergeFiles_cli ==
    /\ pc = "cli_convert"
    /\ dirs' = dirs \cup {normDir(outdir)}
    /\ streams' = Append(streams,
                         [photo |-> cur.photo, video |-> cur.video,
                          target |-> norm(outPathOf(cur.photo, outdir)),
                          phase |-> "created"])
    /\ merged' = outPathOf(cur.photo, outdir)
    /\ pc' = "cli_statSync"
    /\ UNCHANGED << args, listing, fs, files, idx, cur, offset,
                    processedFiles, problematicFiles, matchingPairs, report,
                    exifLog, filePairs, metadata >>

\* convert, lines 412-417: the sizes are read at once; statSync throws if
\* the output file has not been created yet.
statSync_cli ==
    /\ pc = "cli_statSync"
    /\ IF existsSync(fs, merged)
       THEN /\ offset' = statSize(fs, merged) - statSize(fs, cur.photo)
            /\ pc' = "cli_read"
       ELSE /\ pc' = "uncaught_ENOENT"
            /\ UNCHANGED offset
    /\ UNCHANGED << args, listing, fs, dirs, files, idx, cur, merged,
                    processedFiles, problematicFiles, matchingPairs, report,
                    exifLog, cliVars >>

\* addXmpMetadata, lines 392-404: the read of the file's tags, which rejects
\* if the file is not there or cannot be read.
read_cli ==
    /\ pc = "cli_read"
    /\ \E readOk \in BOOLEAN :
        IF readOk /\ existsSync(fs, merged)
        THEN /\ metadata' = readAndSet(fs, merged, offset)
             /\ pc' = "cli_write"
        ELSE /\ ~readOk
             /\ pc' = "uncaught_MetadataWriteError"
             /\ UNCHANGED metadata
    /\ UNCHANGED << args, listing, fs, dirs, files, idx, cur, merged, offset,
                    processedFiles, problematicFiles, matchingPairs, report,
                    exifLog, filePairs, streams >>

\* addXmpMetadata, line 405, and main, lines 487-488: the write of the tags.
\* The service replaces the file by a new one, so a stream that is still
\* writing goes on writing to the old file, which is now the sidecar (or is
\* gone if a sidecar was there).
write_cli ==
    /\ pc = "cli_write"
    /\ \E written \in BOOLEAN :
        /\ exifLog' = Append(exifLog,
                             [file |-> merged, offset |-> offset, ok |-> written,
                              warned |-> FALSE])
        /\ IF written /\ existsSync(fs, merged)
           THEN /\ fs' = exiftoolWrite(fs, merged, metadata)
                /\ streams' =
                       [i \in 1..Len(streams) |->
                           IF onFile(streams[i], merged)
                           THEN [streams[i] EXCEPT !.target =
                                    IF existsSync(fs, sidecarOf(merged))
                                    THEN NoPath ELSE norm(sidecarOf(merged))]
                           ELSE streams[i]]
                /\ processedFiles' = processedFiles \o <<cur.photo, cur.video>>
                /\ idx' = idx + 1
                /\ pc' = "cli_pairs"
           ELSE /\ ~written
                /\ pc' = "uncaught_MetadataWriteError"
                /\ UNCHANGED <<fs, streams, processedFiles, idx>>
    /\ UNCHANGED << args, listing, dirs, files, cur, merged, offset,
                    problematicFiles, matchingPairs, report, filePairs,
                    metadata >>

\* The states in which main is suspended in an await or has returned, so
\* that the event loop runs the streams' callbacks.
EventLoopRuns == pc \in {"cli_read", "cli_write", "cli_done"}

\* fs.createWriteStream's open (flags 'w'): the file is created or
\* truncated. It is issued when the stream is created and completes on the
\* thread pool, at any time from then on.
streamOpen ==
    \E i \in 1..Len(streams) :
        /\ streams[i].phase = "created"
        /\ fs' = writeFile(fs, streams[i].target, NoFile)
        /\ streams' = [streams EXCEPT ![i].phase = "open"]
        /\ UNCHANGED << pc, args, listing, dirs, files, idx, cur, merged,
                        offset, processedFiles, problematicFiles,
                        matchingPairs, report, exifLog, filePairs, metadata >>

\* What a stream appends to the file its descriptor is on.
append(f, target, data) ==
    IF target \in DOMAIN f
    THEN [f EXCEPT ![target] =
             [bytes |-> @.bytes \o data.bytes,
              meta |-> IF @.bytes = <<>> THEN data.meta ELSE @.meta]]
    ELSE f

\* photo.pipe(outfile, {end: false}): the photo's bytes reach the file.
streamPhoto ==
    \E i \in 1..Len(streams) :
        /\ EventLoopRuns
        /\ streams[i].phase = "open"
        /\ fs' = append(fs, streams[i].target, fs[norm(streams[i].photo)])
        /\ streams' = [streams EXCEPT ![i].phase = "photo"]
        /\ UNCHANGED << pc, args, listing, dirs, files, idx, cur, merged,
                        offset, processedFiles, problematicFiles,
                        matchingPairs, report, exifLog, filePairs, metadata >>

\* photo.on("end", () => video.pipe(outfile)): the video's bytes follow.
streamVideo ==
    \E i \in 1..Len(streams) :
        /\ EventLoopRuns
        /\ streams[i].phase = "photo"
        /\ fs' = append(fs, streams[i].target,
                        [bytes |-> fs[norm(streams[i].video)].bytes,
                         meta |-> <<>>])
        /\ streams' = [streams EXCEPT ![i].phase = "done"]
        /\ UNCHANGED << pc, args, listing, dirs, files, idx, cur, merged,
                        offset, processedFiles, problematicFiles,
                        matchingPairs, report, exifLog, filePairs, metadata >>

\* The files --copyall copies, lines 494-499: the entries of --dir whose
\* joined path is not in processedFiles (a video is in it as "./<dir>/...").
remainingFiles ==
    SelectSeq([i \in 1..Len(readdirSync(fs, args.dir)) |->
                   join(args.dir, readdirSync(fs, args.dir)[i])],
              LAMBDA p : p \notin Range(processedFiles))

RECURSIVE copyFiles(_, _, _)
copyFiles(f, paths, dest) ==
    IF paths = <<>> THEN f
    ELSE copyFiles(writeFile(f, join(dest, basename(Head(paths))),
                             f[norm(Head(paths))]),
                   Tail(paths), dest)

\* main, lines 492-515 and the end of main: with --dir and --copyall the
\* remaining files are copied to the output directory.
endPairs_cli ==
    /\ pc = "cli_pairs"
    /\ idx > Len(filePairs)
    /\ IF args.dir # "" /\ args.copyall /\ Len(remainingFiles) > 0
       THEN /\ dirs' = dirs \cup {normDir(outdir)}
            /\ fs' = copyFiles(fs, remainingFiles, outdir)
       ELSE UNCHANGED <<dirs, fs>>
    /\ pc' = "cli_done"
    /\ UNCHANGED << args, listing, files, idx, cur, merged, offset,
                    processedFiles, problematicFiles, matchingPairs, report,
                    exifLog, cliVars >>

\* ---------------------------------------------------------------- the runs

\* The listings: the sequences of up to MaxFiles distinct names.
Listings ==
    UNION { {l \in [1..n -> Names] : \A i, j \in 1..n : i # j => l[i] # l[j]} :
            n \in 0..MaxFiles }

\* The answers a run of the interactive converter may be given.
InteractiveArgs ==
    [ prog : {"interactive"},
      inputDir : {"in", "missing", "notadir"},
      outputDir : {"out", "in", "missing"},
      moveOtherImages : BOOLEAN,
      convertAllHeic : BOOLEAN,
      deleteConverted : BOOLEAN ]

\* The command lines a run of the muxer may be given: --dir, or --photo and
\* --video (either may be left out), each with or without --output.
CliArgs ==
    [ prog : {"cli"},
      dir : {"in", "missing", "notadir"},
      recurse : BOOLEAN,
      copyall : BOOLEAN,
      photo : {NoPath},
      video : {NoPath},
      output : {"", "in"} ]
    \cup
    [ prog : {"cli"},
      dir : {""},
      recurse : {FALSE},
      copyall : {FALSE},
      photo : {NoPath, <<"in", NameSeq[1]>>, <<"in", NameSeq[2]>>},
      video : {NoPath, <<"in", NameSeq[2]>>, <<"in", NameSeq[7]>>},
      output : {"", "in"} ]

Init ==
    /\ listing \in Listings
    /\ args \in InteractiveArgs \cup CliArgs
    /\ pc = IF args.prog = "cli" THEN "cli_main" ELSE "main"
    /\ fs = InitialFs(listing)
    /\ dirs = InitialDirs
    /\ files = <<>>
    /\ idx = 1
    /\ cur = NoPair
    /\ merged = NoPath
    /\ offset = 0
    /\ processedFiles = <<>>
    /\ problematicFiles = <<>>
    /\ matchingPairs = 0
    /\ report = <<>>
    /\ exifLog = <<>>
    /\ filePairs = <<>>
    /\ metadata = <<>>
    /\ streams = <<>>

Next ==
    \/ main
    \/ processDirectory
    \/ skipEntry
    \/ convertHeicToJpeg
    \/ pairJpeg
    \/ createMotionPhoto
    \/ statSync
    \/ annotate
    \/ deleteConverted
    \/ endScan
    \/ moveOther
    \/ endMove
    \/ writeReport
    \/ main_cli
    \/ nextPair_cli
    \/ mergeFiles_cli
    \/ statSync_cli
    \/ read_cli
    \/ write_cli
    \/ streamOpen
    \/ streamPhoto
    \/ streamVideo
    \/ endPairs_cli

Spec == Init /\ [][Next]_vars

\* ------------------------------------------------------------- the claims

\* A still, a video: by the extension after the last dot, whatever its case.
IsStillName(name) == toLowerCase(parseExt(name)) \in {DOT_JPG, DOT_JPEG}
IsVideoName(name) == toLowerCase(parseExt(name)) \in {DOT_MOV, DOT_MP4}

\* A pair that passes validation: both files exist, the still is a .jpg or
\* .jpeg and the video a .mov or .mp4.
IsValidPair(f, photo, video) ==
    /\ norm(photo) \in DOMAIN f
    /\ norm(video) \in DOMAIN f
    /\ IsStillName(basename(photo))
    /\ IsVideoName(basename(video))

\* The output file holds the still's bytes followed by the video's bytes.
OutputComplete ==
    /\ norm(merged) \in DOMAIN fs
    /\ fs[norm(merged)].bytes = cur.stillBytes \o cur.videoBytes
    /\ Len(fs[norm(merged)].bytes) = Len(cur.stillBytes) + Len(cur.videoBytes)

\* C1: when mergeFiles has returned (the program stands at the size reads
\* that follow it), the file at outputRoot/basename(still) holds exactly the
\* still's bytes followed by the video's bytes, and its size is the sum of
\* the two sizes.
C1_MuxedIsStillThenVideo ==
    pc \in {"statSync", "cli_statSync"} =>
        /\ merged = outPathOf(cur.photo,
                              IF args.prog = "cli" THEN outdir ELSE args.outputDir)
        /\ OutputComplete

\* C2: the offset handed to the metadata write is the video's byte length.
C2_OffsetIsVideoLength ==
    pc \in {"addXmpMetadata", "cli_read", "cli_write"} =>
        offset = Len(cur.videoBytes)

\* C8: the still and the video of every pair handed to the muxer have the
\* same filename stem.
C8_PairSharesStem ==
    pc \in {"createMotionPhoto", "cli_convert"} =>
        parseName(basename(cur.photo)) = parseName(basename(cur.video))

\* C10: the size reads and the metadata write of a pair begin only when
\* every byte of the still and of the video is in the output file.
C10_AnnotateAfterMuxCompletes ==
    pc \in {"statSync", "addXmpMetadata", "cli_statSync", "cli_read", "cli_write"} =>
        /\ OutputComplete
        /\ \A i \in 1..Len(streams) :
               streams[i].target = norm(merged) => streams[i].phase = "done"

\* The output root of the program that runs.
OutputRoot == IF args.prog = "cli" THEN outdir ELSE args.outputDir

\* A step of the program itself (not of a stream) on which the output file
\* of the pair at hand is created or modified, a write stream to it is
\* created, or a metadata write is issued.
TouchesOutput ==
    LET out == norm(outPathOf(cur.photo, OutputRoot))
    IN  /\ pc' # pc
        /\ \/ out \in DOMAIN fs' /\ (out \notin DOMAIN fs \/ fs'[out] # fs[out])
           \/ streams' # streams
           \/ exifLog' # exifLog

\* C3: validation runs before any byte is touched: no step creates or
\* modifies an output file, opens a stream to it or issues a metadata write
\* for a pair whose still or video does not exist or has another extension
\* than .jpg/.jpeg and .mov/.mp4 (in any case).
C3_NothingTouchedForInvalidPair ==
    [][TouchesOutput => IsValidPair(fs, cur.photo, cur.video)]_vars

\* C3's case: the muxer was given a still and a .txt video that both exist,
\* and has ended with every file as it was and no metadata write issued.
C3_Witness ==
    /\ args.prog = "cli"
    /\ pc = "cli_done"
    /\ args.dir = ""
    /\ IsStillName(basename(args.photo))
    /\ norm(args.photo) \in DOMAIN fs
    /\ norm(args.video) \in DOMAIN fs
    /\ ~IsVideoName(basename(args.video))
    /\ fs = InitialFs(listing)
    /\ streams = <<>>
    /\ exifLog = <<>>

\* The program was ended by an exception that muxing or annotating a pair
\* threw.
PairErrorUncaught == pc \in {"uncaught_IOError", "uncaught_MetadataWriteError"}

\* The program runs on a directory.
DirectoryRun == args.prog = "interactive" \/ args.dir # ""

\* C4: in a directory run a read/write error of a mux or a metadata-write
\* error of an annotate never ends the run: the run goes on to the remaining
\* entries of the listing and to its normal end.
C4_PairErrorsDoNotAbort == DirectoryRun => ~PairErrorUncaught

\* The run of the interactive converter is over.
RunOver ==
    /\ args.prog = "interactive"
    /\ \/ pc \in {"exit0", "exit1"}
       \/ PairErrorUncaught
       \/ pc = "uncaught_ENOENT"

\* C5: when a batch run is over, the still of every pair whose mux or
\* annotation failed is in the problem list, and problematic_files.txt has
\* been written exactly if the list is not empty.
C5_FailuresAreReported ==
    RunOver =>
        /\ PairErrorUncaught =>
               \/ cur.photo \in Range(problematicFiles)
               \/ cur.heic \in Range(problematicFiles)
        /\ (report # <<>>) <=> (problematicFiles # <<>>)

\* The input directory named to the program does not exist or is no
\* directory.
BadInputDir ==
    \/ args.prog = "interactive" /\ args.inputDir \in {"missing", "notadir"}
    \/ args.prog = "cli" /\ args.dir \in {"missing", "notadir"}

\* C6: with an input directory that does not exist or is no directory the
\* run ends with exit status 1 and, until then, has listed no directory and
\* has read, created, modified, moved or deleted no file.
C6_BadDirectoryIsFatalAndTouchesNothing ==
    BadInputDir =>
        /\ pc \in {"main", "cli_main", "exit1"}
        /\ fs = InitialFs(listing)
        /\ dirs = InitialDirs
        /\ files = <<>>
        /\ filePairs = <<>>
        /\ streams = <<>>
        /\ exifLog = <<>>
        /\ report = <<>>

\* C6's case: a run on such a directory has ended with status 1, with files
\* in the directory tree that it could have touched.
C6_Witness ==
    /\ BadInputDir
    /\ pc = "exit1"
    /\ Len(listing) > 0

\* ------------------------------------------------ annotation on its own

\* The largest offset and stale metadata value, and the number of times the
\* artifact is annotated.
MaxOffset == 2
MaxCalls == 2

\* A muxed artifact: a.jpg followed by a.mov.
Artifact == <<"out", NameSeq[1]>>

\* The metadata an artifact may carry before it is annotated: a camera
\* entry and stale offsets under either program's key, each there or not.
ArtifactMetas ==
    UNION { [K -> 0..MaxOffset] :
            K \in SUBSET {"Make", "XMP:MicroVideoOffset",
                          "Xmp.GCamera.MicroVideoOffset"} }

InitAnnotate ==
    /\ args \in [prog : {"interactive", "cli"}]
    /\ offset \in 0..MaxOffset
    /\ \E m \in ArtifactMetas, backup \in BOOLEAN :
        LET artifact == [bytes |-> bytesOf(NameSeq[1]) \o bytesOf(NameSeq[2]),
                         meta |-> m]
        IN  fs = IF backup
                 THEN writeFile(writeFile(<<>>, Artifact, artifact),
                                sidecarOf(Artifact), artifact)
                 ELSE writeFile(<<>>, Artifact, artifact)
    /\ merged = Artifact
    /\ pc = "annotating"
    /\ listing = <<>>
    /\ dirs = InitialDirs
    /\ files = <<>>
    /\ idx = 1
    /\ cur = NoPair
    /\ processedFiles = <<>>
    /\ problematicFiles = <<>>
    /\ matchingPairs = 0
    /\ report = <<>>
    /\ exifLog = <<>>
    /\ filePairs = <<>>
    /\ metadata = <<>>
    /\ streams = <<>>

\* addXmpMetadata of lines 92-108 on the artifact, once more.
reannotate ==
    /\ pc = "annotating"
    /\ args.prog = "interactive"
    /\ Len(exifLog) < MaxCalls
    /\ \E unlinkOk \in BOOLEAN :
        /\ fs' = addXmpMetadata(fs, merged, offset, unlinkOk)
        /\ exifLog' = Append(exifLog,
                             [file |-> merged, offset |-> offset, ok |-> TRUE,
                              warned |-> ~unlinkOk])
    /\ UNCHANGED << pc, args, listing, dirs, files, idx, cur, merged, offset,
                    processedFiles, problematicFiles, matchingPairs, report,
                    cliVars >>

\* addXmpMetadata of lines 389-406 on the artifact, once more.
reannotate_cli ==
    /\ pc = "annotating"
    /\ args.prog = "cli"
    /\ Len(exifLog) < MaxCalls
    /\ metadata' = readAndSet(fs, merged, offset)
    /\ fs' = exiftoolWrite(fs, merged, metadata')
    /\ exifLog' = Append(exifLog,
                         [file |-> merged, offset |-> offset, ok |-> TRUE,
                          warned |-> FALSE])
    /\ UNCHANGED << pc, args, listing, dirs, files, idx, cur, merged, offset,
                    processedFiles, problematicFiles, matchingPairs, report,
                    filePairs, streams >>

NextAnnotate == reannotate \/ reannotate_cli

SpecAnnotate == InitAnnotate /\ [][NextAnnotate]_vars

\* The four motion-photo keys of the program that runs.
MotionKeys ==
    IF args.prog = "cli"
    THEN {"Xmp.GCamera.MicroVideo", "Xmp.GCamera.MicroVideoVersion",
          "Xmp.GCamera.MicroVideoOffset",
          "Xmp.GCamera.MicroVideoPresentationTimestampUs"}
    ELSE {"XMP:MicroVideo", "XMP:MicroVideoVersion", "XMP:MicroVideoOffset",
          "XMP:MicroVideoPresentationTimestampUs"}

\* The metadata m, annotated once with offset off: the marker and the
\* version are 1, the offset is off, the timestamp is 1.5 s, and every other
\* entry of m is as it was.
AnnotatedOnce(m, off) ==
    [k \in DOMAIN m \cup MotionKeys |->
        IF k \notin MotionKeys THEN m[k]
        ELSE IF k \in {"XMP:MicroVideoOffset", "Xmp.GCamera.MicroVideoOffset"}
             THEN off
        ELSE IF k \in {"XMP:MicroVideoPresentationTimestampUs",
                       "Xmp.GCamera.MicroVideoPresentationTimestampUs"}
             THEN 1500000
        ELSE 1]

\* C7: annotating is idempotent in the metadata: an annotation leaves the
\* artifact's metadata annotated once (the four keys set, every other entry
\* kept), and annotating an annotated artifact again with the same offset
\* leaves its metadata as it is.
C7_AnnotateTwiceIsAnnotateOnce ==
    [][ /\ fs'[Artifact].meta = AnnotatedOnce(fs[Artifact].meta, offset)
        /\ Len(exifLog) >= 1 => fs'[Artifact].meta = fs[Artifact].meta ]_vars

\* C7's case: the artifact has been annotated twice; it had a camera entry
\* and a stale offset before.
C7_Witness ==
    /\ Len(exifLog) = 2
    /\ "Make" \in DOMAIN fs[Artifact].meta
    /\ \E k \in MotionKeys :
        /\ k \in DOMAIN fs[Artifact].meta
        /\ fs[Artifact].meta[k] = offset
        /\ sidecarOf(Artifact) \in DOMAIN fs
        /\ k \in DOMAIN fs[sidecarOf(Artifact)].meta
        /\ fs[sidecarOf(Artifact)].meta[k] # offset

\* ------------------------------------------------- the move of the others

\* A media file: one of the extensions the move looks for, in any case.
IsMediaName(name) ==
    \/ IsStillName(name)
    \/ IsVideoName(name)
    \/ toLowerCase(parseExt(name)) \in {DOT_HEIC, DOT_PNG, DOT_GIF}

\* The media files the input directory held at the start.
InputMedia ==
    {<<args.inputDir, n>> : n \in {m \in Range(listing) : IsMediaName(m)}}

\* The file was consumed by a mux or by a conversion.
Consumed(p) == p \in Range(processedFiles)

\* The file, as it was at the start, is under other_files.
InOtherFiles(p) ==
    \E q \in DOMAIN fs :
        /\ dirname(q) = args.outputDir \o "/other_files"
        /\ fs[q] = InitialFs(listing)[p]

\* A directory run with "move unmatched" has reached its end.
MovedRunOver ==
    /\ args.prog = "interactive"
    /\ args.moveOtherImages
    /\ pc = "exit0"

MuxOrAnnotateStep ==
    \/ pc \in {"createMotionPhoto", "addXmpMetadata", "cli_convert", "cli_write"}
    \/ streams' # streams

\* The file at p is after the step what it was before it. The one file that
\* may be gone is the JPEG made from a HEIC, which processDirectory unlinks
\* once createMotionPhoto has returned.
SourceKept(p) ==
    IF norm(p) \in DOMAIN fs'
    THEN fs'[norm(p)] = fs[norm(p)]
    ELSE cur.heic # NoPath /\ p = cur.photo

\* C11: for a valid pair, the output path is neither the still's path nor
\* the video's, and no step of the mux or of the annotation changes the
\* still or the video.
C11_SourcesUnchanged ==
    [][ (MuxOrAnnotateStep /\ IsValidPair(fs, cur.photo, cur.video)) =>
            /\ norm(outPathOf(cur.photo, OutputRoot)) # norm(cur.photo)
            /\ norm(outPathOf(cur.photo, OutputRoot)) # norm(cur.video)
            /\ SourceKept(cur.photo)
            /\ SourceKept(cur.video) ]_vars

\* ------------------------------------------------ the pairs of one run

\* The pairs the run has muxed, in order: mergeFiles of the interactive
\* converter records the still and then the video of each in processedFiles
\* (nothing else puts a video there); the muxer has one stream per pair.
MuxedPairs ==
    IF args.prog = "cli"
    THEN [i \in 1..Len(streams) |-> <<streams[i].photo, streams[i].video>>]
    ELSE LET at == SelectSeq([i \in 1..Len(processedFiles) |-> i],
                             LAMBDA i : IsVideoName(basename(processedFiles[i])))
         IN  [k \in 1..Len(at) |->
                 <<processedFiles[at[k] - 1], processedFiles[at[k]]>>]

\* C12: in a directory run no two muxed pairs have the same video file and
\* no two have the same output path.
C12_MuxedPairsDisjoint ==
    DirectoryRun =>
        \A i, j \in 1..Len(MuxedPairs) :
            i # j =>
                /\ norm(MuxedPairs[i][2]) # norm(MuxedPairs[j][2])
                /\ norm(outPathOf(MuxedPairs[i][1], OutputRoot)) #
                       norm(outPathOf(MuxedPairs[j][1], OutputRoot))

\* ------------------------------------------------- the resolver on its own

\* The stills matchingVideo is asked about: the JPEGs and the HEIC.
ResolveStills ==
    {<<"in", n>> : n \in {m \in Names : IsStillName(m) \/ isHeic(m)}}

\* matchingVideo's arguments: a still of the input directory, and the
\* directory with any listing.
InitResolve ==
    /\ listing \in Listings
    /\ args \in [prog : {"interactive", "cli"}, inputDir : {"in"}]
    /\ fs = InitialFs(listing)
    /\ \E still \in ResolveStills : cur = [NoPair EXCEPT !.photo = still]
    /\ pc = "resolving"
    /\ dirs = InitialDirs
    /\ files = <<>>
    /\ idx = 1
    /\ merged = NoPath
    /\ offset = 0
    /\ processedFiles = <<>>
    /\ problematicFiles = <<>>
    /\ matchingPairs = 0
    /\ report = <<>>
    /\ exifLog = <<>>
    /\ filePairs = <<>>
    /\ metadata = <<>>
    /\ streams = <<>>

\* matchingVideo of lines 122-135 on the still.
resolve ==
    /\ pc = "resolving"
    /\ args.prog = "interactive"
    /\ cur' = [cur EXCEPT !.video = matchingVideo(fs, cur.photo, args.inputDir)]
    /\ pc' = "resolved"
    /\ UNCHANGED << args, listing, fs, dirs, files, idx, merged, offset,
                    processedFiles, problematicFiles, matchingPairs, report,
                    exifLog, cliVars >>

\* matchingVideo of lines 421-440 on the still.
resolve_cli ==
    /\ pc = "resolving"
    /\ args.prog = "cli"
    /\ cur' = [cur EXCEPT !.video = matchingVideo_cli(fs, cur.photo)]
    /\ pc' = "resolved"
    /\ UNCHANGED << args, listing, fs, dirs, files, idx, merged, offset,
                    processedFiles, problematicFiles, matchingPairs, report,
                    exifLog, cliVars >>

NextResolve == resolve \/ resolve_cli

SpecResolve == InitResolve /\ [][NextResolve]_vars

\* An entry that begins with the still's stem and whose extension is .mov
\* or .mp4 in any case.
IsCandidate(entry) ==
    /\ startsWith(entry, parseName(basename(cur.photo)))
    /\ IsVideoName(entry)

\* The video selected is the first candidate of the listing, and none is
\* selected exactly when the listing has no candidate.
FirstCandidateSelected ==
    IF \A i \in 1..Len(listing) : ~IsCandidate(listing[i])
    THEN cur.video = NoPath
    ELSE \E i \in 1..Len(listing) :
            /\ IsCandidate(listing[i])
            /\ \A j \in 1..(i - 1) : ~IsCandidate(listing[j])
            /\ norm(cur.video) = <<"in", listing[i]>>

\* The still's stem with .mov, .mp4, .MOV, .MP4, in the order the muxer
\* looks for them.
ExactForms ==
    [k \in 1..4 |->
        parseName(basename(cur.photo)) \o <<DOT_MOV, DOT_MP4, UP_MOV, UP_MP4>>[k]]

\* The video selected is the first of the four exact forms that the
\* directory holds, and none is selected exactly when it holds none.
FirstExactFormSelected ==
    IF \A k \in 1..4 : ExactForms[k] \notin Range(listing)
    THEN cur.video = NoPath
    ELSE \E k \in 1..4 :
            /\ ExactForms[k] \in Range(listing)
            /\ \A h \in 1..(k - 1) : ExactForms[h] \notin Range(listing)
            /\ norm(cur.video) = <<"in", ExactForms[k]>>

\* C13 as claimed: either matchingVideo returns the first entry in listing
\* order that begins with the still's stem and has the extension .mov or
\* .mp4 in any case, and no match exactly when there is no such entry.
C13_FirstPrefixMatchInListingOrder ==
    pc = "resolved" => FirstCandidateSelected

\* C13 as amended: the interactive converter's matchingVideo does so; the
\* muxer's returns the file named by the still's exact stem with .mov, .mp4,
\* .MOV or .MP4 (the first of the four that exists), and no match exactly
\* when none of the four exists.
C13_FirstMatch ==
    pc = "resolved" =>
        IF args.prog = "interactive"
        THEN FirstCandidateSelected
        ELSE FirstExactFormSelected

\* C13's case: the listing holds two candidates for the still, and the
\* first of them, which is not the one with the still's exact stem, was
\* selected.
C13_Witness ==
    /\ pc = "resolved"
    /\ \E i, j \in 1..Len(listing) :
        /\ i < j
        /\ IsCandidate(listing[i])
        /\ IsCandidate(listing[j])
        /\ parseName(listing[i]) # parseName(basename(cur.photo))
        /\ norm(cur.video) = <<"in", listing[i]>>

\* ------------------------------------------------------ the mux, run again

\* The number of times the pair is muxed into the output root.
MaxRuns == 2

\* The pairs given to the mux: a still and a video of the input directory.
RerunPairs ==
    {<<p, v>> \in (Names \X Names) : IsStillName(p) /\ IsVideoName(v)}

\* What a run may find at the output path: nothing, the output of an earlier
\* run of the pair (annotated), or that of an earlier run with a longer video.
PriorOutputs(p, v) ==
    LET out == [bytes |-> bytesOf(p) \o bytesOf(v),
                meta |-> xmpTags(Len(bytesOf(v))) @@ metaOf(p)]
    IN  {NoFile, out, [out EXCEPT !.bytes = @ \o bytesOf(v)]}

\* mergeFiles' arguments: a valid pair and an output root that exists (and
\* may hold an output) or does not exist yet.
InitRerun ==
    /\ \E pair \in RerunPairs, root \in {"out", "fresh"},
          prog \in {"interactive", "cli"} :
       \E prior \in PriorOutputs(pair[1], pair[2]) :
        /\ root = "fresh" => prior = NoFile
        /\ listing = <<pair[1], pair[2]>>
        /\ args = IF prog = "cli"
                  THEN [prog |-> prog, output |-> root]
                  ELSE [prog |-> prog, outputDir |-> root]
        /\ fs = IF prior = NoFile THEN InitialFs(listing)
                ELSE writeFile(InitialFs(listing), <<root, pair[1]>>, prior)
        /\ cur = TakeUp(InitialFs(listing), <<"in", pair[1]>>,
                        <<"in", pair[2]>>, NoPath)
    /\ pc = "mux"
    /\ dirs = InitialDirs
    /\ files = <<>>
    /\ idx = 1
    /\ merged = NoPath
    /\ offset = 0
    /\ processedFiles = <<>>
    /\ problematicFiles = <<>>
    /\ matchingPairs = 0
    /\ report = <<>>
    /\ exifLog = <<>>
    /\ filePairs = <<>>
    /\ metadata = <<>>
    /\ streams = <<>>

\* mergeFiles of lines 81-90 on the pair, once more; idx numbers the run.
\* mkdirSync with {recursive: true} is no error when the directory exists.
remux ==
    /\ pc = "mux"
    /\ args.prog = "interactive"
    /\ idx <= MaxRuns
    /\ validateMedia(fs, cur.photo, cur.video)
    /\ dirs' = dirs \cup {normDir(args.outputDir)}
    /\ fs' = mergeFiles(fs, cur.photo, cur.video, args.outputDir)
    /\ processedFiles' = processedFiles \o <<cur.photo, cur.video>>
    /\ merged' = outPathOf(cur.photo, args.outputDir)
    /\ idx' = idx + 1
    /\ UNCHANGED << pc, args, listing, files, cur, offset, problematicFiles,
                    matchingPairs, report, exifLog, cliVars >>

\* mergeFiles of lines 371-387 on the pair, once more, in a process of its
\* own: the run before has ended, so its streams are done; when mergeFiles
\* has returned the event loop runs the streams of this one.
remux_cli ==
    /\ pc \in {"mux", "cli_done"}
    /\ args.prog = "cli"
    /\ idx <= MaxRuns
    /\ \A i \in 1..Len(streams) : streams[i].phase = "done"
    /\ validateMedia_cli(fs, cur.photo, cur.video)
    /\ dirs' = dirs \cup {normDir(outdir)}
    /\ streams' = Append(streams,
                         [photo |-> cur.photo, video |-> cur.video,
                          target |-> norm(outPathOf(cur.photo, outdir)),
                          phase |-> "created"])
    /\ merged' = outPathOf(cur.photo, outdir)
    /\ idx' = idx + 1
    /\ pc' = "cli_done"
    /\ UNCHANGED << args, listing, fs, files, cur, offset, processedFiles,
                    problematicFiles, matchingPairs, report, exifLog,
                    filePairs, metadata >>

NextRerun == remux \/ remux_cli \/ streamOpen \/ streamPhoto \/ streamVideo

SpecRerun == InitRerun /\ [][NextRerun]_vars

\* C14: when mergeFiles has returned from a run that found the output
\* directory and the output file of the run before, the output directory
\* exists and the output file holds exactly the still's bytes followed by
\* the video's bytes: the earlier output is replaced, not added to.
C14_RerunOverwrites ==
    idx > 2 =>
        /\ normDir(OutputRoot) \in dirs
        /\ norm(merged) \in DOMAIN fs
        /\ fs[norm(merged)].bytes = cur.stillBytes \o cur.videoBytes

\* ------------------------------------------------- the sidecar of a write

\* The step is a metadata write that succeeded.
AnnotateWritten ==
    /\ Len(exifLog') = Len(exifLog) + 1
    /\ exifLog'[Len(exifLog')].ok

\* C15: when the annotation of an artifact has written the metadata, it ends
\* normally with nothing added to the problem list, and no
\* <artifact>_original is left beside the artifact unless deleting it failed,
\* which it has only logged.
C15_SidecarDeletedOrWarned ==
    [][ AnnotateWritten =>
            /\ pc' # "uncaught_MetadataWriteError"
            /\ problematicFiles' = problematicFiles
            /\ norm(sidecarOf(exifLog'[Len(exifLog')].file)) \in DOMAIN fs' =>
                   exifLog'[Len(exifLog')].warned ]_vars

\* ------------------------------------------------- the converted HEICs

\* The file that was at p at the start is on disk: at p, or under other_files.
OnDisk(p) == norm(p) \in DOMAIN fs' \/ InOtherFiles(p)'

\* C16: with "delete converted" a step deletes a HEIC only if its
\* conversion succeeded (the HEIC is in processedFiles); a HEIC in the
\* problem list stays on disk; and the move of the other files never ends
\* on a file that is gone.
C16_OnlyConvertedHeicDeleted ==
    [][ (args.prog = "interactive" /\ args.deleteConverted) =>
            /\ (pc = "deleteConverted" /\ fs' # fs) =>
                   cur.heic \in Range(processedFiles)
            /\ \A p \in Range(problematicFiles') : OnDisk(p)
            /\ pc = "moveOthers" => pc' # "uncaught_ENOENT" ]_vars

\* ------------------------------------------------- uniquePath on its own

\* The highest number in a name that other_files holds at the start.
MaxCopies == 2

\* name(k)ext of a file name, the name itself for k = 0.
Numbered(name, k) ==
    IF k = 0 THEN name
    ELSE parseName(name) \o <<"(", ToString(k), ")">> \o parseExt(name)

\* A file that was in other_files before the run.
EarlierFile == [bytes |-> <<9>>, meta |-> <<>>]

\* The move pass at its start (lines 208-211): one file in the input
\* directory, and other_files holding any of its name, name(1)ext, ...,
\* name(MaxCopies)ext from earlier runs.
InitUnique ==
    /\ args = [prog |-> "interactive", inputDir |-> "in", outputDir |-> "out",
               moveOtherImages |-> TRUE, convertAllHeic |-> FALSE,
               deleteConverted |-> FALSE]
    /\ \E n \in Names, taken \in SUBSET (0..MaxCopies) :
        /\ listing = <<n>>
        /\ fs = [p \in {<<"out/other_files", Numbered(n, k)>> : k \in taken}
                     |-> EarlierFile] @@ InitialFs(listing)
    /\ files = listing
    /\ idx = 1
    /\ pc = "moveOthers"
    /\ dirs = InitialDirs \cup {"out/other_files"}
    /\ cur = NoPair
    /\ merged = NoPath
    /\ offset = 0
    /\ processedFiles = <<>>
    /\ problematicFiles = <<>>
    /\ matchingPairs = 0
    /\ report = <<>>
    /\ exifLog = <<>>
    /\ filePairs = <<>>
    /\ metadata = <<>>
    /\ streams = <<>>

NextUnique == moveOther \/ endMove

SpecUnique == InitUnique /\ [][NextUnique]_vars

\* C17: a move to other_files puts the file under the first of its name,
\* name(1)ext, name(2)ext, ... that is free there: the path did not exist,
\* every lower-numbered one did, and every file that was on disk, the ones
\* in other_files included, is as it was.
C17_MoveTakesFirstFreeName ==
    [][ (pc = "moveOthers" /\ idx <= Len(files) /\ IsMediaName(files[idx])) =>
            \E k \in 0..(MaxCopies + 1) :
                LET from == <<"in", files[idx]>>
                    to == <<"out/other_files", Numbered(files[idx], k)>>
                IN  /\ to \notin DOMAIN fs
                    /\ \A j \in 0..(k - 1) :
                           <<"out/other_files", Numbered(files[idx], j)>>
                               \in DOMAIN fs
                    /\ DOMAIN fs' = (DOMAIN fs \ {from}) \cup {to}
                    /\ fs'[to] = fs[from]
                    /\ \A q \in DOMAIN fs \ {from} : fs'[q] = fs[q] ]_vars

\* C17's case: other_files held the file's name and name(1)ext, and the
\* file was moved to name(2)ext beside them.
C17_Witness ==
    /\ idx = 2
    /\ \E n \in Range(files) :
        /\ \A k \in 0..2 : <<"out/other_files", Numbered(n, k)>> \in DOMAIN fs
        /\ fs[<<"out/other_files", n>>] = EarlierFile
        /\ fs[<<"out/other_files", Numbered(n, 1)>>] = EarlierFile
        /\ fs[<<"out/other_files", Numbered(n, 2)>>].bytes = bytesOf(n)
        /\ <<"in", n>> \notin DOMAIN fs

====
